---- MODULE Spec2Model ----
(***************************************************************************)
(* VideoProcessor (app/utils/video_processor_v2.py): shot-boundary         *)
(* detection, per-shot keyframe selection, keyframe archiving and the      *)
(* two-pass pipeline process_video_pipeline.                               *)
(*                                                                         *)
(* A frame is a one-pixel image, given by its grayscale intensity (in      *)
(* 0..MaxGray, in SpecShots in 0..MaxShotGray).  Frame indices are Python indices (counted from 0);         *)
(* the frame of index i of a sequence fs is fs[i + 1].  A file name is the *)
(* sequence of its characters, with the literals "keyframe_" and ".jpg"    *)
(* kept as one element each.  A directory is the set of its file names.    *)
(*                                                                         *)
(* Taken from the environment: cv2.imwrite and os.makedirs succeed; the    *)
(* transcoder keeps the frame count and the frame rate of the source; a    *)
(* failed os.remove or shutil.rmtree leaves the files as they were; a      *)
(* released cv2.VideoCapture answers read() with (False, None) and         *)
(* release() with nothing.  skip_seconds is a whole number of seconds and  *)
(* not negative; the mini-frame directory and output_dir are two           *)
(* directories.                                                            *)
(***************************************************************************)
EXTENDS Integers, Sequences, FiniteSets, TLC

VARIABLES
    pc,               \* position of the running call
    frames,           \* the frames the decoder yields for the source video
    fps,              \* self.fps
    total_frames,     \* self.total_frames
    cap_open,         \* self.cap is opened (not yet released)
    readable,         \* frame indices at which self.cap.read() succeeds while opened
    threshold,        \* argument threshold
    skip_seconds,     \* argument skip_seconds
    keep_temp,        \* argument keep_temp
    shot_boundaries,  \* result of detect_shot_boundaries
    keyframe_indices, \* result of extract_keyframes / argument of save_keyframes
    frame_numbers,    \* argument of extract_frames_by_numbers / the recovered list
    folder,           \* files of the directory save_keyframes writes (mini_frames_dir)
    hd_folder,        \* files of the directory extract_frames_by_numbers writes
    seeks,            \* frame indices self.cap.set / read were called with, this call
    written,          \* frame indices whose file this call wrote to hd_folder
    exc,              \* the exception raised inside the call, "None" if none
    raised,           \* the exception that reached the caller, "None" on a normal return
    mini,             \* mini_processor: "None", "open" or "released"
    compressed,       \* the compressed video file exists
    temp_dir,         \* the temp directory (with compressed/ and mini_frames/) exists
    tries,            \* shutil.rmtree attempts made by the running cleanup
    trace,            \* the steps the running pipeline call has executed, in order
    snap,             \* [compressed, folder] when the cleanup of the running call began
    runs              \* pipeline calls started so far

inputVars == <<frames, fps, total_frames, readable>>
argVars == <<threshold, skip_seconds, keep_temp>>
shotVars == <<shot_boundaries, keyframe_indices>>
pipeVars == <<mini, compressed, temp_dir, tries, trace, snap, runs, raised>>

vars == <<pc, frames, fps, total_frames, cap_open, readable, threshold, skip_seconds,
          keep_temp, shot_boundaries, keyframe_indices, frame_numbers, folder, hd_folder,
          seeks, written, exc, raised, mini, compressed, temp_dir, tries, trace, snap, runs>>

----------------------------------------------------------------------------
(* Bounds of the model *)

MaxFrames == 3
MaxGray == 1
MaxThreshold == 1
MaxFps == 2

\* a frame: the intensity of a one-pixel grayscale image
Frame == 0..MaxGray

RECURSIVE SeqsUpTo(_, _)
SeqsUpTo(S, n) ==
    IF n = 0 THEN {<<>>}
    ELSE LET shorter == SeqsUpTo(S, n - 1)
         IN  shorter \cup {Append(s, x) : s \in {t \in shorter : Len(t) = n - 1}, x \in S}

----------------------------------------------------------------------------
(* Python helpers *)

Min(a, b) == IF a < b THEN a ELSE b
Max(a, b) == IF a > b THEN a ELSE b
Abs(x) == IF x < 0 THEN -x ELSE x

RECURSIVE SumTo(_, _)
\* f[1] + ... + f[n]
SumTo(f, n) == IF n = 0 THEN 0 ELSE f[n] + SumTo(f, n - 1)

\* s[a:b] of a Python list, negative and out-of-range positions included
PySlice(s, a, b) ==
    LET n  == Len(s)
        lo == IF a < 0 THEN Max(n + a, 0) ELSE Min(a, n)
        hi == IF b < 0 THEN Max(n + b, 0) ELSE Min(b, n)
    IN  IF lo >= hi THEN <<>> ELSE SubSeq(s, lo + 1, hi)

----------------------------------------------------------------------------
(* detect_shot_boundaries *)

\* a comparison that also accepts a difference equal to the threshold
DiffAtLeast(prev_frame, curr_frame, th) == Abs(curr_frame - prev_frame) >= th

\* np.mean(np.abs(curr_frame - prev_frame)) > threshold
DiffAbove(prev_frame, curr_frame, th) == Abs(curr_frame - prev_frame) > th

RECURSIVE DetectLoop(_, _, _, _)
DetectLoop(fs, th, i, acc) ==
    IF i >= Len(fs) THEN acc
    ELSE DetectLoop(fs, th, i + 1,
                    IF DiffAbove(fs[i], fs[i + 1], th) THEN Append(acc, i) ELSE acc)

detect_shot_boundaries(fs, th) == DetectLoop(fs, th, 1, <<>>)

----------------------------------------------------------------------------
(* extract_keyframes *)

\* n * n * (squared distance of frame j of the shot to the mean of the shot)
Dist2(shot_frames, j) ==
    LET n == Len(shot_frames)
        d == n * shot_frames[j] - SumTo(shot_frames, n)
    IN  d * d

\* an argmin that returns the last position of the least distance
center_idxLast(shot_frames) ==
    LET n == Len(shot_frames)
        best == CHOOSE j \in 1..n :
                  /\ \A k \in 1..n : Dist2(shot_frames, j) <= Dist2(shot_frames, k)
                  /\ \A k \in (j + 1)..n : Dist2(shot_frames, k) > Dist2(shot_frames, j)
    IN  best - 1

\* np.argmin: the first position (from 0) of the least distance
center_idx(shot_frames) ==
    LET n == Len(shot_frames)
        best == CHOOSE j \in 1..n :
                  /\ \A k \in 1..n : Dist2(shot_frames, j) <= Dist2(shot_frames, k)
                  /\ \A k \in 1..(j - 1) : Dist2(shot_frames, k) > Dist2(shot_frames, j)
    IN  best - 1

\* the number of shots the loop of extract_keyframes visits
ShotCount(sb) == Len(sb)

\* every shot taken to start at the first frame
ShotStartZero(sb, i) == 0

ShotStart(sb, i) == IF i > 0 THEN sb[i] ELSE 0
ShotEnd(sb, i) == sb[i + 1]

\* [exc, indices]: KMeans raises ValueError on an empty shot
RECURSIVE KeyframeLoop(_, _, _, _)
KeyframeLoop(fs, sb, i, acc) ==
    IF i >= ShotCount(sb) THEN [exc |-> "None", indices |-> acc]
    ELSE LET start == ShotStart(sb, i)
             end == ShotEnd(sb, i)
             shot_frames == PySlice(fs, start, end)
         IN  IF shot_frames = <<>>
             THEN [exc |-> "ValueError", indices |-> acc]
             ELSE KeyframeLoop(fs, sb, i + 1, Append(acc, start + center_idx(shot_frames)))

extract_keyframes(fs, sb) == KeyframeLoop(fs, sb, 0, <<>>)

----------------------------------------------------------------------------
(* Keyframe file names: keyframe_{frame_idx:06d}_{HH}{MM}{SS}.jpg *)

DigitChar == <<"0", "1", "2", "3", "4", "5", "6", "7", "8", "9">>
IsDigit(c) == \E d \in 1..10 : DigitChar[d] = c
DigitVal(c) == (CHOOSE d \in 1..10 : DigitChar[d] = c) - 1

RECURSIVE Digits(_)
\* str(n) of a natural number n
Digits(n) == IF n < 10 THEN <<DigitChar[n + 1]>>
             ELSE Append(Digits(n \div 10), DigitChar[(n % 10) + 1])

RECURSIVE ZeroFill(_, _)
ZeroFill(ds, w) == IF Len(ds) >= w THEN ds ELSE ZeroFill(<<"0">> \o ds, w)

\* a fixed-width field: the last w digits only
FormatDFixed(n, w) ==
    LET ds == ZeroFill(Digits(IF n < 0 THEN -n ELSE n), w)
    IN  SubSeq(ds, Len(ds) - w + 1, Len(ds))

\* f"{n:0{w}d}": at least w characters, the sign included, never truncated
FormatD(n, w) == IF n < 0 THEN <<"-">> \o ZeroFill(Digits(-n), w - 1)
                 ELSE ZeroFill(Digits(n), w)

\* hours, minutes, seconds of a timestamp of ts whole seconds
time_str(ts) ==
    FormatD(ts \div 3600, 2) \o FormatD((ts % 3600) \div 60, 2) \o FormatD(ts % 60, 2)

\* the time string save_keyframes derives from timestamp = frame_idx / fps
save_time_str(frame_idx, rate) ==
    FormatD(frame_idx \div (3600 * rate), 2)
        \o FormatD((frame_idx % (3600 * rate)) \div (60 * rate), 2)
        \o FormatD((frame_idx % (60 * rate)) \div rate, 2)

FileName(frame_idx, ts_str) ==
    <<"keyframe_">> \o FormatD(frame_idx, 6) \o <<"_">> \o ts_str \o <<".jpg">>

----------------------------------------------------------------------------
(* save_keyframes *)

RECURSIVE SaveLoop(_, _, _, _)
SaveLoop(indices, rate, dir, i) ==
    IF i > Len(indices) THEN [exc |-> "None", dir |-> dir]
    ELSE IF rate = 0 THEN [exc |-> "ZeroDivisionError", dir |-> dir]
    ELSE SaveLoop(indices, rate,
                  dir \cup {FileName(indices[i], save_time_str(indices[i], rate))}, i + 1)

\* [exc, dir]: the directory after the call
save_keyframes(indices, rate, dir) == SaveLoop(indices, rate, dir, 1)

----------------------------------------------------------------------------
(* extract_numbers_from_folder *)

AllDigits(f, a, b) == a <= b /\ \A k \in a..b : IsDigit(f[k])

\* re.compile(r'keyframe_(\d+)_\d+\.jpg$').search(f): the positions <<p, q>> of
\* "keyframe_" and of the "_" that ends group 1
MatchAt(f, p, q) ==
    /\ f[p] = "keyframe_"
    /\ AllDigits(f, p + 1, q - 1)
    /\ f[q] = "_"
    /\ AllDigits(f, q + 1, Len(f) - 1)
    /\ f[Len(f)] = ".jpg"

Matches(f) == \E p \in 1..Len(f), q \in 1..Len(f) : MatchAt(f, p, q)

RECURSIVE IntOf(_)
\* int(digits)
IntOf(ds) == IF ds = <<>> THEN 0
             ELSE 10 * IntOf(SubSeq(ds, 1, Len(ds) - 1)) + DigitVal(ds[Len(ds)])

\* int(match.group(1)) of the leftmost match
FrameNumberOf(f) ==
    LET p == CHOOSE a \in 1..Len(f) :
               /\ \E q \in 1..Len(f) : MatchAt(f, a, q)
               /\ \A b \in 1..(a - 1) : ~ \E q \in 1..Len(f) : MatchAt(f, b, q)
        q == CHOOSE b \in 1..Len(f) : MatchAt(f, p, b)
    IN  IntOf(SubSeq(f, p + 1, q - 1))

RECURSIVE SortedNumbers(_)
\* sorted(numbers), one number per file
SortedNumbers(files) ==
    IF files = {} THEN <<>>
    ELSE LET f == CHOOSE g \in files :
                    \A h \in files : FrameNumberOf(g) <= FrameNumberOf(h)
         IN  <<FrameNumberOf(f)>> \o SortedNumbers(files \ {f})

extract_numbers_from_folder(dir) ==
    SortedNumbers({f \in dir : f # <<>> /\ f[Len(f)] = ".jpg" /\ Matches(f)})

----------------------------------------------------------------------------
(* extract_frames_by_numbers *)

\* the range check without its lower bound
HasInvalidUpperOnly(fns, total) == \E k \in 1..Len(fns) : fns[k] >= total

\* line 139: any(fn >= self.total_frames or fn < 0 for fn in frame_numbers)
HasInvalid(fns, total) == \E k \in 1..Len(fns) : fns[k] >= total \/ fns[k] < 0

\* the second recorded before the read, whatever its result
MarkSecondAlways(processed_seconds, ts, ret) == processed_seconds \cup {ts}

\* line 161: the second is recorded only when the read succeeded
MarkSecond(processed_seconds, ts, ret) ==
    IF ret THEN processed_seconds \cup {ts} ELSE processed_seconds

RECURSIVE ExtractLoop(_, _, _, _, _)
\* st = [dir, processed_seconds, seeks, written]; rd = the indices cap.read() decodes
ExtractLoop(fns, rate, rd, i, st) ==
    IF i > Len(fns) THEN [exc |-> "None"] @@ st
    ELSE IF rate = 0 THEN [exc |-> "ZeroDivisionError"] @@ st
    ELSE LET frame_number == fns[i]
             timestamp_seconds == frame_number \div rate
         IN  IF timestamp_seconds \in st.processed_seconds
             THEN ExtractLoop(fns, rate, rd, i + 1, st)
             ELSE LET ret == frame_number \in rd
                      name == FileName(frame_number, time_str(timestamp_seconds))
                  IN  ExtractLoop(fns, rate, rd, i + 1,
                        [dir |-> IF ret THEN st.dir \cup {name} ELSE st.dir,
                         processed_seconds |->
                             MarkSecond(st.processed_seconds, timestamp_seconds, ret),
                         seeks |-> Append(st.seeks, frame_number),
                         written |-> IF ret THEN Append(st.written, frame_number)
                                     ELSE st.written])

\* [exc, dir, processed_seconds, seeks, written]
extract_frames_by_numbers(fns, total, rate, rd, dir) ==
    LET st0 == [dir |-> dir, processed_seconds |-> {}, seeks |-> <<>>, written |-> <<>>]
    IN  IF fns = <<>> THEN [exc |-> "ValueError: no frame numbers"] @@ st0
        ELSE IF HasInvalid(fns, total) THEN [exc |-> "ValueError: invalid frame number"] @@ st0
        ELSE ExtractLoop(fns, rate, rd, 1, st0)

----------------------------------------------------------------------------
(* process_video: the low-resolution pass *)

\* a pass that archives the indices relative to the first frame kept
process_videoUnadjusted(decoded, rate, skip, th, dir) ==
    LET skip_frames == skip * rate
        fs == PySlice(decoded, skip_frames, Len(decoded))
        sb == detect_shot_boundaries(fs, th)
        kf == extract_keyframes(fs, sb)
        saved == save_keyframes(kf.indices, rate, dir)
    IN  IF fs = <<>>
        THEN [exc |-> "ValueError: no frames left", dir |-> dir,
              shot_boundaries |-> <<>>, keyframe_indices |-> <<>>]
        ELSE IF kf.exc # "None"
        THEN [exc |-> kf.exc, dir |-> dir,
              shot_boundaries |-> sb, keyframe_indices |-> <<>>]
        ELSE [exc |-> saved.exc, dir |-> saved.dir,
              shot_boundaries |-> sb, keyframe_indices |-> kf.indices]

\* a pass without the check of lines 217-218
process_videoUnchecked(decoded, rate, skip, th, dir) ==
    LET skip_frames == skip * rate
        fs == PySlice(decoded, skip_frames, Len(decoded))
        sb == detect_shot_boundaries(fs, th)
        kf == extract_keyframes(fs, sb)
        adjusted_indices == [k \in 1..Len(kf.indices) |-> kf.indices[k] + skip_frames]
        saved == save_keyframes(adjusted_indices, rate, dir)
    IN  IF kf.exc # "None"
        THEN [exc |-> kf.exc, dir |-> dir,
              shot_boundaries |-> sb, keyframe_indices |-> <<>>]
        ELSE [exc |-> saved.exc, dir |-> saved.dir,
              shot_boundaries |-> sb, keyframe_indices |-> adjusted_indices]

\* [exc, dir, shot_boundaries, keyframe_indices]; decoded = the frames
\* preprocess_video yields, dir = the output directory before the call
process_video(decoded, rate, skip, th, dir) ==
    LET skip_frames == skip * rate
        fs == PySlice(decoded, skip_frames, Len(decoded))
        sb == detect_shot_boundaries(fs, th)
        kf == extract_keyframes(fs, sb)
        adjusted_indices == [k \in 1..Len(kf.indices) |-> kf.indices[k] + skip_frames]
        saved == save_keyframes(adjusted_indices, rate, dir)
    IN  IF fs = <<>>
        THEN [exc |-> "ValueError: no frames left", dir |-> dir,
              shot_boundaries |-> <<>>, keyframe_indices |-> <<>>]
        ELSE IF kf.exc # "None"
        THEN [exc |-> kf.exc, dir |-> dir,
              shot_boundaries |-> sb, keyframe_indices |-> <<>>]
        ELSE [exc |-> saved.exc, dir |-> saved.dir,
              shot_boundaries |-> sb, keyframe_indices |-> adjusted_indices]

----------------------------------------------------------------------------
(* States before any call *)

NoPipeline ==
    /\ mini = "None" /\ compressed = FALSE /\ temp_dir = FALSE /\ tries = 0
    /\ trace = <<>> /\ snap = [compressed |-> FALSE, folder |-> {}] /\ runs = 0
    /\ raised = "None"

NoResults ==
    /\ shot_boundaries = <<>> /\ keyframe_indices = <<>> /\ frame_numbers = <<>>
    /\ folder = {} /\ hd_folder = {} /\ seeks = <<>> /\ written = <<>> /\ exc = "None"

NoArgs == threshold = 0 /\ skip_seconds = 0 /\ keep_temp = FALSE

----------------------------------------------------------------------------
(* SpecShots: detect_shot_boundaries, then extract_keyframes, on any video *)

MaxShotFrames == 4
MaxShotGray == 2

InitShots ==
    /\ pc = "shots"
    /\ frames \in SeqsUpTo(0..MaxShotGray, MaxShotFrames)
    /\ threshold \in 0..MaxThreshold
    /\ fps = 1 /\ total_frames = Len(frames) /\ cap_open = TRUE /\ readable = {}
    /\ skip_seconds = 0 /\ keep_temp = FALSE
    /\ NoResults /\ NoPipeline

DetectShots ==
    /\ pc = "shots"
    /\ shot_boundaries' = detect_shot_boundaries(frames, threshold)
    /\ pc' = "detected"
    /\ UNCHANGED <<inputVars, argVars, pipeVars, cap_open, keyframe_indices,
                   frame_numbers, folder, hd_folder, seeks, written, exc>>

SelectKeyframes ==
    /\ pc = "detected"
    /\ LET r == extract_keyframes(frames, shot_boundaries)
       IN  keyframe_indices' = r.indices /\ exc' = r.exc
    /\ pc' = "selected"
    /\ UNCHANGED <<inputVars, argVars, pipeVars, cap_open, shot_boundaries,
                   frame_numbers, folder, hd_folder, seeks, written>>

NextShots == DetectShots \/ SelectKeyframes

SpecShots == InitShots /\ [][NextShots]_vars

----------------------------------------------------------------------------
(* SpecKeyframes: extract_keyframes called with a boundary list of the caller *)

MaxBoundaries == 3

\* the strictly increasing lists of at most n members of S
IncreasingLists(S, n) ==
    {s \in SeqsUpTo(S, n) : \A p \in 1..(Len(s) - 1) : s[p] < s[p + 1]}

\* a boundary list may name any frame index and up to two positions past the end
InitKeyframes ==
    /\ pc = "given"
    /\ frames \in SeqsUpTo(Frame, MaxShotFrames)
    /\ shot_boundaries \in IncreasingLists(0..(Len(frames) + 1), MaxBoundaries)
    /\ threshold = 0
    /\ fps = 1 /\ total_frames = Len(frames) /\ cap_open = TRUE /\ readable = {}
    /\ skip_seconds = 0 /\ keep_temp = FALSE
    /\ keyframe_indices = <<>> /\ frame_numbers = <<>>
    /\ folder = {} /\ hd_folder = {} /\ seeks = <<>> /\ written = <<>> /\ exc = "None"
    /\ NoPipeline

SelectGiven ==
    /\ pc = "given"
    /\ LET r == extract_keyframes(frames, shot_boundaries)
       IN  keyframe_indices' = r.indices /\ exc' = r.exc
    /\ pc' = "chosen"
    /\ UNCHANGED <<inputVars, argVars, pipeVars, cap_open, shot_boundaries,
                   frame_numbers, folder, hd_folder, seeks, written>>

NextKeyframes == SelectGiven

SpecKeyframes == InitKeyframes /\ [][NextKeyframes]_vars

----------------------------------------------------------------------------
(* SpecNaming: save_keyframes into an empty directory, then                 *)
(* extract_numbers_from_folder on it                                        *)

IndexBase == 150
MaxIndexExp == 3
MaxSaved == 3

RECURSIVE Pow(_, _)
Pow(b, e) == IF e = 0 THEN 1 ELSE b * Pow(b, e - 1)

\* frame indices of one to seven and more digits
IndexSamples == {Pow(IndexBase, e) - 1 : e \in 0..MaxIndexExp}

InitNaming ==
    /\ pc = "naming"
    /\ keyframe_indices \in SeqsUpTo(IndexSamples, MaxSaved)
    /\ fps \in 0..MaxFps
    /\ frames = <<>> /\ total_frames = 0 /\ cap_open = TRUE /\ readable = {}
    /\ shot_boundaries = <<>> /\ frame_numbers = <<>>
    /\ folder = {} /\ hd_folder = {} /\ seeks = <<>> /\ written = <<>> /\ exc = "None"
    /\ NoArgs /\ NoPipeline

SaveKeyframes ==
    /\ pc = "naming"
    /\ LET r == save_keyframes(keyframe_indices, fps, folder)
       IN  folder' = r.dir /\ exc' = r.exc
    /\ pc' = "saved"
    /\ UNCHANGED <<inputVars, argVars, pipeVars, shotVars, cap_open,
                   frame_numbers, hd_folder, seeks, written>>

ScanFolder ==
    /\ pc = "saved"
    /\ frame_numbers' = extract_numbers_from_folder(folder)
    /\ pc' = "scanned"
    /\ UNCHANGED <<inputVars, argVars, pipeVars, shotVars, cap_open,
                   folder, hd_folder, seeks, written, exc>>

NextNaming == SaveKeyframes \/ ScanFolder

SpecNaming == InitNaming /\ [][NextNaming]_vars

----------------------------------------------------------------------------
(* SpecExtract: one call of extract_frames_by_numbers *)

MaxNumbers == 3

\* what self.cap.read() decodes: nothing once the handle is released
CanRead == IF cap_open THEN readable ELSE {}

InitExtract ==
    /\ pc = "extract"
    /\ total_frames \in 1..MaxFrames
    /\ frames = [k \in 1..total_frames |-> 0]
    /\ fps \in 0..MaxFps
    /\ cap_open \in BOOLEAN
    /\ readable \in SUBSET (0..(total_frames - 1))
    /\ frame_numbers \in SeqsUpTo((-1)..MaxFrames, MaxNumbers)
    /\ shot_boundaries = <<>> /\ keyframe_indices = <<>>
    /\ folder = {} /\ hd_folder = {} /\ seeks = <<>> /\ written = <<>> /\ exc = "None"
    /\ NoArgs /\ NoPipeline

ExtractFrames ==
    /\ pc = "extract"
    /\ LET r == extract_frames_by_numbers(frame_numbers, total_frames, fps,
                                          CanRead, hd_folder)
       IN  /\ hd_folder' = r.dir
           /\ seeks' = r.seeks
           /\ written' = r.written
           /\ exc' = r.exc
    /\ pc' = "extracted"
    /\ UNCHANGED <<inputVars, argVars, pipeVars, shotVars, cap_open,
                   frame_numbers, folder>>

NextExtract == ExtractFrames

SpecExtract == InitExtract /\ [][NextExtract]_vars

----------------------------------------------------------------------------
(* process_video_pipeline.  An entry of trace is <<step, result>>, result   *)
(* being "None" or the exception the step raised.  The transcoder and the  *)
(* removals fail or succeed as the environment decides; the compressed     *)
(* video decodes to the frames of the source.                              *)

MaxPipeFrames == 3
MaxSkip == 1
MaxRuns == 2

max_retries == 3

Did(step) == \E k \in 1..Len(trace) : trace[k][1] = step
Log(step, result) == Append(trace, <<step, result>>)

\* a scan that hands any list on to the extraction
RecoverErrorNever(fns) == "None"

\* lines 283-284: an empty recovered list raises
RecoverError(fns) == IF fns = <<>> THEN "ValueError: no keyframes found" ELSE "None"

\* an except clause that only logs
ReraiseNothing(e) == "None"

\* lines 290-293: the except clause logs and re-raises
Reraise(e) == e

\* a handler that escalates the error of the last attempt
AfterRmtreeErrorEscalated(e, i) == IF i = max_retries - 1 THEN "OSError" ELSE e

\* lines 326-331: the error of attempt i (from 0) of rmtree is logged as a
\* warning or followed by a retry; the exception in flight (e) stays as it is
AfterRmtreeError(e, i) == e

\* a cleanup that ignores keep_temp
CleanupWantedAlways(kt) == TRUE

\* line 309: if not keep_temp
CleanupWanted(kt) == ~ kt

PipelineInputs ==
    /\ frames \in SeqsUpTo(Frame, MaxPipeFrames)
    /\ fps \in 0..MaxFps
    /\ total_frames = Len(frames)
    /\ \E gap \in (-1)..(Len(frames) - 1) : readable = (0..(Len(frames) - 1)) \ {gap}

Init ==
    /\ pc = "idle"
    /\ PipelineInputs
    /\ cap_open = TRUE
    /\ NoArgs /\ NoResults /\ NoPipeline

\* lines 238-250: the directories are created, whatever they held is kept
StartRun(limit) ==
    /\ pc \in {"idle", "done"}
    /\ runs < limit
    /\ runs' = runs + 1
    /\ keep_temp' \in BOOLEAN
    /\ threshold' \in 0..MaxThreshold
    /\ skip_seconds' \in 0..MaxSkip
    /\ temp_dir' = TRUE
    /\ mini' = "None"
    /\ trace' = <<<<"start", IF cap_open THEN "opened" ELSE "released">>>>
    /\ tries' = 0 /\ exc' = "None" /\ raised' = "None"
    /\ shot_boundaries' = <<>> /\ keyframe_indices' = <<>> /\ frame_numbers' = <<>>
    /\ seeks' = <<>> /\ written' = <<>>
    /\ snap' = [compressed |-> FALSE, folder |-> {}]
    /\ pc' = "compress"
    /\ UNCHANGED <<inputVars, cap_open, compressed, folder, hd_folder>>

\* a transcoder step whose failure does not stop the pipeline
CompressIgnoringFailure ==
    /\ pc = "compress"
    /\ \/ /\ compressed' = TRUE
          /\ trace' = Log("compress", "None")
       \/ /\ compressed' = compressed
          /\ trace' = Log("compress", "CalledProcessError")
    /\ exc' = "None"
    /\ pc' = "open_mini"
    /\ UNCHANGED <<inputVars, argVars, shotVars, cap_open, frame_numbers, folder,
                   hd_folder, seeks, written, raised, mini, temp_dir, tries, snap, runs>>

\* lines 253-272: subprocess.run(ffmpeg_cmd, check=True)
Compress ==
    /\ pc = "compress"
    /\ \/ /\ compressed' = TRUE
          /\ trace' = Log("compress", "None")
          /\ exc' = "None"
          /\ pc' = "open_mini"
       \/ /\ compressed' = compressed
          /\ trace' = Log("compress", "CalledProcessError")
          /\ exc' = "CalledProcessError"
          /\ pc' = "release"
    /\ UNCHANGED <<inputVars, argVars, shotVars, cap_open, frame_numbers, folder,
                   hd_folder, seeks, written, raised, mini, temp_dir, tries, snap, runs>>

\* line 276: mini_processor = VideoProcessor(compressed_video)
OpenMini ==
    /\ pc = "open_mini"
    /\ \/ /\ mini' = "open"
          /\ trace' = Log("open_mini", "None")
          /\ exc' = "None"
          /\ pc' = "lowres"
       \/ /\ mini' = "None"
          /\ trace' = Log("open_mini", "RuntimeError")
          /\ exc' = "RuntimeError"
          /\ pc' = "release"
    /\ UNCHANGED <<inputVars, argVars, shotVars, cap_open, frame_numbers, folder,
                   hd_folder, seeks, written, raised, compressed, temp_dir, tries,
                   snap, runs>>

\* line 277: mini_processor.process_video(mini_frames_dir, skip_seconds, threshold)
LowRes ==
    /\ pc = "lowres"
    /\ LET r == process_video(frames, fps, skip_seconds, threshold, folder)
       IN  /\ folder' = r.dir
           /\ shot_boundaries' = r.shot_boundaries
           /\ keyframe_indices' = r.keyframe_indices
           /\ exc' = r.exc
           /\ trace' = Log("lowres", r.exc)
           /\ pc' = IF r.exc = "None" THEN "recover" ELSE "release"
    /\ UNCHANGED <<inputVars, argVars, cap_open, frame_numbers, hd_folder, seeks,
                   written, raised, mini, compressed, temp_dir, tries, snap, runs>>

\* lines 281-284: the recovery scan
Recover ==
    /\ pc = "recover"
    /\ LET fns == extract_numbers_from_folder(folder)
       IN  /\ frame_numbers' = fns
           /\ exc' = RecoverError(fns)
           /\ trace' = Log("recover", RecoverError(fns))
           /\ pc' = IF RecoverError(fns) = "None" THEN "hires" ELSE "release"
    /\ UNCHANGED <<inputVars, argVars, shotVars, cap_open, folder, hd_folder, seeks,
                   written, raised, mini, compressed, temp_dir, tries, snap, runs>>

\* line 286: self.extract_frames_by_numbers(frame_numbers, hd_frames_dir)
HiRes ==
    /\ pc = "hires"
    /\ LET r == extract_frames_by_numbers(frame_numbers, total_frames, fps,
                                          CanRead, hd_folder)
       IN  /\ hd_folder' = r.dir
           /\ seeks' = r.seeks
           /\ written' = r.written
           /\ exc' = r.exc
           /\ trace' = Log("hires", r.exc)
    /\ pc' = "release"
    /\ UNCHANGED <<inputVars, argVars, shotVars, cap_open, frame_numbers, folder,
                   raised, mini, compressed, temp_dir, tries, snap, runs>>

\* a finally block that releases self.cap only
ReleaseOriginalOnly ==
    /\ pc = "release"
    /\ mini' = mini
    /\ cap_open' = FALSE
    /\ snap' = [compressed |-> compressed, folder |-> folder]
    /\ trace' = Log("release", "None")
    /\ pc' = IF CleanupWanted(keep_temp) THEN "remove_compressed" ELSE "finish"
    /\ UNCHANGED <<inputVars, argVars, shotVars, frame_numbers, folder, hd_folder,
                   seeks, written, exc, raised, compressed, temp_dir, tries, runs>>

\* lines 295-309: finally: both handles are released, then keep_temp is read
Release ==
    /\ pc = "release"
    /\ mini' = IF mini = "None" THEN "None" ELSE "released"
    /\ cap_open' = FALSE
    /\ snap' = [compressed |-> compressed, folder |-> folder]
    /\ trace' = Log("release", "None")
    /\ pc' = IF CleanupWanted(keep_temp) THEN "remove_compressed" ELSE "finish"
    /\ UNCHANGED <<inputVars, argVars, shotVars, frame_numbers, folder, hd_folder,
                   seeks, written, exc, raised, compressed, temp_dir, tries, runs>>

\* lines 312-316: os.remove(compressed_video) if the file exists
RemoveCompressed ==
    /\ pc = "remove_compressed"
    /\ \/ /\ ~ compressed
          /\ UNCHANGED <<compressed, trace, exc>>
       \/ /\ compressed
          /\ compressed' = FALSE
          /\ trace' = Log("remove_compressed", "None")
          /\ exc' = exc
       \/ /\ compressed
          /\ compressed' = TRUE
          /\ trace' = Log("remove_compressed", "OSError")
          /\ exc' = exc
    /\ pc' = "rmtree"
    /\ UNCHANGED <<inputVars, argVars, shotVars, cap_open, frame_numbers, folder,
                   hd_folder, seeks, written, raised, mini, temp_dir, tries, snap, runs>>

\* a removal loop without the break after a successful attempt
RmtreeWithoutBreak ==
    /\ pc = "rmtree"
    /\ tries < max_retries
    /\ tries' = tries + 1
    /\ \/ /\ temp_dir' = FALSE /\ folder' = {} /\ compressed' = FALSE
          /\ trace' = Log("rmtree", "None")
          /\ exc' = exc
       \/ /\ UNCHANGED <<temp_dir, folder, compressed>>
          /\ trace' = IF tries = max_retries - 1 THEN Log("rmtree", "OSError")
                      ELSE Append(Log("rmtree", "OSError"), <<"sleep", "None">>)
          /\ exc' = AfterRmtreeError(exc, tries)
    /\ pc' = IF tries = max_retries - 1 THEN "finish" ELSE "rmtree"
    /\ UNCHANGED <<inputVars, argVars, shotVars, cap_open, frame_numbers, hd_folder,
                   seeks, written, raised, mini, snap, runs>>

\* lines 320-331: one attempt of shutil.rmtree(temp_dir); a failed attempt that
\* is not the last one is followed by time.sleep(1)
Rmtree ==
    /\ pc = "rmtree"
    /\ tries < max_retries
    /\ tries' = tries + 1
    /\ \/ /\ temp_dir' = FALSE /\ folder' = {} /\ compressed' = FALSE
          /\ trace' = Log("rmtree", "None")
          /\ exc' = exc
          /\ pc' = "finish"
       \/ /\ UNCHANGED <<temp_dir, folder, compressed>>
          /\ trace' = IF tries = max_retries - 1 THEN Log("rmtree", "OSError")
                      ELSE Append(Log("rmtree", "OSError"), <<"sleep", "None">>)
          /\ exc' = AfterRmtreeError(exc, tries)
          /\ pc' = IF tries = max_retries - 1 THEN "finish" ELSE "rmtree"
    /\ UNCHANGED <<inputVars, argVars, shotVars, cap_open, frame_numbers, hd_folder,
                   seeks, written, raised, mini, snap, runs>>

\* the call ends: the exception in flight, if any, reaches the caller
Finish ==
    /\ pc = "finish"
    /\ raised' = Reraise(exc)
    /\ pc' = "done"
    /\ UNCHANGED <<inputVars, argVars, shotVars, cap_open, frame_numbers, folder,
                   hd_folder, seeks, written, exc, mini, compressed, temp_dir, tries,
                   trace, snap, runs>>

\* lines 20-30: a new VideoProcessor on the same video file
Reopen ==
    /\ pc = "done"
    /\ ~ cap_open
    /\ cap_open' = TRUE
    /\ UNCHANGED <<pc, inputVars, argVars, shotVars, frame_numbers, folder, hd_folder,
                   seeks, written, exc, raised, mini, compressed, temp_dir, tries,
                   trace, snap, runs>>

Steps == Compress \/ OpenMini \/ LowRes \/ Recover \/ HiRes
            \/ Release \/ RemoveCompressed \/ Rmtree \/ Finish

\* one pipeline call on a new processor and an empty output directory
Next == StartRun(1) \/ Steps

Spec == Init /\ [][Next]_vars

\* pipeline calls one after the other on the same output directory, on the same
\* processor or on a new one
NextRuns == StartRun(MaxRuns) \/ Reopen \/ Steps

SpecRuns == Init /\ [][NextRuns]_vars

----------------------------------------------------------------------------
(* SpecPasses: the low-resolution pass, the recovery scan and the           *)
(* high-resolution pass on a source whose reported frame count may differ   *)
(* from the number of frames the decoder yields                             *)

InitPasses ==
    /\ pc = "lowres"
    /\ frames \in SeqsUpTo(Frame, MaxShotFrames)
    /\ total_frames \in {n \in (Len(frames) - 1)..(Len(frames) + 1) : n >= 0}
    /\ fps \in 0..MaxFps
    /\ readable = 0..(Len(frames) - 1)
    /\ cap_open = TRUE
    /\ threshold \in 0..MaxThreshold
    /\ skip_seconds \in 0..MaxSkip
    /\ keep_temp = FALSE
    /\ NoResults
    /\ mini = "open" /\ compressed = TRUE /\ temp_dir = TRUE /\ tries = 0
    /\ trace = <<>> /\ snap = [compressed |-> FALSE, folder |-> {}] /\ runs = 1
    /\ raised = "None"

NextPasses == LowRes \/ Recover \/ HiRes

SpecPasses == InitPasses /\ [][NextPasses]_vars

----------------------------------------------------------------------------
(* Claims on SpecShots *)

NoDiffAbove ==
    \A i \in 1..(Len(frames) - 1) : ~ DiffAbove(frames[i], frames[i + 1], threshold)

\* C2: on a non-empty frame sequence whose consecutive differences are all
\* <= threshold, detect_shot_boundaries returns the empty list and
\* extract_keyframes produces exactly one representative.
C2_OneShotWithoutBoundary ==
    (pc = "selected" /\ frames # <<>> /\ NoDiffAbove)
        => (shot_boundaries = <<>> /\ Len(keyframe_indices) = 1)

----------------------------------------------------------------------------
(* Claims on SpecExtract *)

Positions == 1..Len(frame_numbers)
SecondOf(k) == frame_numbers[k] \div fps
\* the positions of the list whose index lies in second s
InSecond(s) == {k \in Positions : SecondOf(k) = s}
\* the indices this call archived for second s
ArchivedFor(s) == {k \in 1..Len(written) : written[k] \div fps = s}
FirstOf(P) == CHOOSE k \in P : \A j \in P : k <= j

\* C5 as stated: two frame numbers of the same whole second leave exactly one
\* archived file for that second, the file of the earlier-processed index
\* (here on an opened handle and for two different frame numbers).
C5_FirstIndexOfSecondArchived ==
    (pc = "extracted" /\ exc = "None" /\ cap_open)
        => \A a \in Positions, b \in Positions :
             (a < b /\ SecondOf(a) = SecondOf(b) /\ frame_numbers[a] # frame_numbers[b])
                 => /\ Cardinality(ArchivedFor(SecondOf(a))) = 1
                    /\ \A k \in ArchivedFor(SecondOf(a)) :
                         written[k] = frame_numbers[FirstOf(InSecond(SecondOf(a)))]

\* C5 amended: two frame numbers of the same whole second leave at most one
\* archived file for that second; it is the file of the first index of that
\* second, in list order, whose decode succeeds, and there is none exactly
\* when no index of that second decodes.
C5_FirstDecodedIndexOfSecondArchived ==
    (pc = "extracted" /\ exc = "None")
        => \A a \in Positions, b \in Positions :
             (a < b /\ SecondOf(a) = SecondOf(b))
                 => LET decoded == {k \in InSecond(SecondOf(a)) :
                                       frame_numbers[k] \in CanRead}
                    IN  IF decoded = {}
                        THEN ArchivedFor(SecondOf(a)) = {}
                        ELSE /\ Cardinality(ArchivedFor(SecondOf(a))) = 1
                             /\ \A k \in ArchivedFor(SecondOf(a)) :
                                  written[k] = frame_numbers[FirstOf(decoded)]

\* two different indices of one second, the earlier undecodable, the later archived
C5_Witness ==
    /\ pc = "extracted" /\ exc = "None"
    /\ \E a \in Positions, b \in Positions :
         /\ a < b /\ SecondOf(a) = SecondOf(b)
         /\ frame_numbers[a] # frame_numbers[b]
         /\ frame_numbers[a] \notin CanRead
         /\ written = <<frame_numbers[b]>>
         /\ Cardinality(hd_folder) = 1

OutOfRange(fn) == fn < 0 \/ fn > total_frames - 1

\* C6: a list holding an index < 0 or >= total_frames fails with the
\* invalid-index error before any seek or decode and before any file is
\* written, whatever the other indices are.
C6_InvalidIndexRejectedFirst ==
    (pc = "extracted" /\ \E k \in Positions : OutOfRange(frame_numbers[k]))
        => /\ exc = "ValueError: invalid frame number"
           /\ seeks = <<>>
           /\ written = <<>>
           /\ hd_folder = {}

\* a decodable valid index ahead of an invalid one
C6_Witness ==
    /\ pc = "extracted" /\ fps >= 1
    /\ Len(frame_numbers) >= 2
    /\ frame_numbers[1] \in CanRead
    /\ \E k \in 2..Len(frame_numbers) : frame_numbers[k] < 0
    /\ \E k \in 2..Len(frame_numbers) : frame_numbers[k] >= total_frames
    /\ exc = "ValueError: invalid frame number"

----------------------------------------------------------------------------
(* Claims on SpecNaming *)

Saved == {keyframe_indices[k] : k \in 1..Len(keyframe_indices)}

\* C7: for any frame indices and any frame rate >= 1, extract_numbers_from_folder
\* on an initially empty directory populated by save_keyframes returns exactly
\* the indices written, in ascending order.
C7_NamingRoundTrip ==
    (pc = "scanned" /\ fps >= 1)
        => /\ {frame_numbers[k] : k \in 1..Len(frame_numbers)} = Saved
           /\ \A k \in 1..(Len(frame_numbers) - 1) :
                frame_numbers[k] < frame_numbers[k + 1]
           /\ Cardinality(folder) = Cardinality(Saved)

\* indices of fewer and of more than six digits, saved out of order
C7_Witness ==
    /\ pc = "scanned" /\ fps >= 1
    /\ Len(keyframe_indices) = 3
    /\ keyframe_indices[1] >= 1000000
    /\ keyframe_indices[2] = 0
    /\ keyframe_indices[3] \in 1..999
    /\ Len(frame_numbers) = 3

----------------------------------------------------------------------------
(* Claims on Spec and SpecRuns: process_video_pipeline *)

PipelineSteps == {"compress", "open_mini", "lowres", "recover", "hires"}
Entries(step) == {k \in 1..Len(trace) : trace[k][1] = step}
Failures(step) == {k \in Entries(step) : trace[k][2] # "None"}
FailedSteps == {k \in 1..Len(trace) : trace[k][1] \in PipelineSteps /\ trace[k][2] # "None"}
\* the exception of the step that failed, "None" if no step failed
StepError == IF FailedSteps = {} THEN "None" ELSE trace[FirstOf(FailedSteps)][2]

\* the frames differ by more than threshold at index k and nowhere else
SingleChangeAt(k) ==
    \A i \in 1..(Len(frames) - 1) :
        (Abs(frames[i + 1] - frames[i]) > threshold) <=> (i = k)

\* C1: a source with a single scene change at frame k leaves exactly 2 keyframe
\* files in output_dir, one with its frame index in [0,k) and one in [k,N)
\* (here at 1 frame per second, nothing skipped, every frame decodable, the
\* transcoder and the opening of its output succeeding).
C1_TwoKeyframesForOneSceneChange ==
    (pc = "done" /\ Did("lowres") /\ fps = 1 /\ skip_seconds = 0
        /\ readable = 0..(Len(frames) - 1))
        => \A k \in 1..(Len(frames) - 1) :
             SingleChangeAt(k)
                 => /\ raised = "None"
                    /\ Cardinality(hd_folder) = 2
                    /\ \A f \in hd_folder : Matches(f)
                    /\ \E f \in hd_folder : FrameNumberOf(f) \in 0..(k - 1)
                    /\ \E f \in hd_folder : FrameNumberOf(f) \in k..(Len(frames) - 1)

\* C3: when the recovery scan returns an empty list the pipeline raises the
\* no-keyframes error, performs no high-resolution extraction (no seek, no file
\* written to output_dir), and the cleanup runs before the error reaches the
\* caller.
C3_EmptyRecoveryAborts ==
    (Did("recover") /\ frame_numbers = <<>>)
        => /\ exc = "ValueError: no keyframes found"
           /\ ~ Did("hires")
           /\ seeks = <<>> /\ written = <<>> /\ hd_folder = {}
           /\ (raised # "None" \/ pc = "done")
                 => /\ raised = "ValueError: no keyframes found"
                    /\ Did("release")
                    /\ ~ keep_temp => Did("rmtree")

\* the scan found nothing although frames were decoded, and the temp
\* directory was removed before the error was raised
C3_Witness ==
    /\ pc = "done" /\ Did("recover") /\ frame_numbers = <<>>
    /\ Len(frames) >= 2
    /\ raised = "ValueError: no keyframes found"
    /\ ~ temp_dir

\* C4: in every run the cleanup runs exactly once, after the step that failed
\* (after all steps when none failed), and then the exception of the failing
\* step reaches the caller; a run without a failing step returns normally.
C4_CleanupOnceThenReraise ==
    /\ Cardinality(Entries("release")) <= 1
    /\ raised # "None" => pc = "done"
    /\ pc = "done"
         => /\ Cardinality(Entries("release")) = 1
            /\ \A k \in 1..Len(trace) :
                 trace[k][1] \in PipelineSteps => \A r \in Entries("release") : k < r
            /\ raised = StepError

\* the low-resolution pass failed after two successful steps; the temp
\* directory was removed and the error raised
C4_Witness ==
    /\ pc = "done"
    /\ Did("compress") /\ Did("open_mini") /\ Failures("lowres") # {}
    /\ Did("rmtree")
    /\ raised = "ZeroDivisionError"

RemovalFailed ==
    \/ Failures("remove_compressed") # {}
    \/ Cardinality(Failures("rmtree")) = max_retries

\* C9: a failed cleanup (the compressed file cannot be deleted, or the temp
\* directory cannot be removed in any attempt) does not change the outcome: the
\* run returns normally if no step failed and raises the step's exception
\* otherwise.
C9_CleanupFailureNotEscalated ==
    (pc = "done" /\ RemovalFailed)
        => IF FailedSteps = {} THEN raised = "None"
           ELSE raised = trace[FirstOf(FailedSteps)][2]

\* every removal failed after a run that wrote a high-resolution frame
C9_Witness ==
    /\ pc = "done"
    /\ Failures("remove_compressed") # {}
    /\ Cardinality(Failures("rmtree")) = max_retries
    /\ written # <<>>
    /\ raised = "None"
    /\ temp_dir /\ compressed

\* C10: with keep_temp = false and a successful removal, neither the compressed
\* video nor the temp directory (nor its mini frames) exists at the end of the
\* run; with keep_temp = true the cleanup deletes nothing.
C10_TempRemovedUnlessKept ==
    pc = "done"
        => /\ (~ keep_temp /\ Entries("rmtree") \ Failures("rmtree") # {})
                 => (~ compressed /\ ~ temp_dir /\ folder = {})
           /\ keep_temp
                 => /\ compressed = snap.compressed /\ folder = snap.folder /\ temp_dir
                    /\ ~ Did("remove_compressed") /\ ~ Did("rmtree")

\* the compressed video and a mini frame existed when the cleanup began; the
\* first removal of the directory failed, the second succeeded
C10_Witness ==
    /\ pc = "done" /\ ~ keep_temp
    /\ snap.compressed /\ snap.folder # {}
    /\ Failures("rmtree") # {}
    /\ ~ compressed /\ ~ temp_dir /\ folder = {}

\* C8: a frame-reading operation on a released handle fails explicitly: a
\* pipeline call started on a processor whose handle is released, and reaching
\* the high-resolution extraction, raises.
C8_UseAfterReleaseFails ==
    (pc = "done" /\ trace[1] = <<"start", "released">> /\ Did("hires"))
        => raised # "None"

----------------------------------------------------------------------------
(* Claims on Spec, continued *)

\* C11: in every terminal state the handle of the original source is released
\* and so is the handle of the low-resolution source if it was opened; both
\* releases precede every deletion of a temp file or directory.
C11_HandlesReleasedBeforeRemoval ==
    /\ (pc = "done" \/ Did("remove_compressed") \/ Did("rmtree"))
         => /\ ~ cap_open
            /\ mini # "open"
            /\ (Entries("open_mini") \ Failures("open_mini") # {}) => mini = "released"
            /\ \A k \in Entries("remove_compressed") \cup Entries("rmtree") :
                 \E r \in Entries("release") : r < k
    /\ pc \in {"remove_compressed", "rmtree", "finish"} => (~ cap_open /\ mini # "open")

\* the low-resolution pass raised with both handles opened; both are released
\* and the temp directory was removed afterwards
C11_Witness ==
    /\ pc = "done"
    /\ Failures("lowres") # {}
    /\ mini = "released" /\ ~ cap_open
    /\ Did("remove_compressed") /\ Did("rmtree")
    /\ raised # "None"

----------------------------------------------------------------------------
(* Claims on SpecShots, continued *)

\* the 0-based frame indices i >= 1 whose difference to frame i - 1 exceeds th
Spikes(fs, th) == {i \in 1..(Len(fs) - 1) : Abs(fs[i + 1] - fs[i]) > th}

\* C12: detect_shot_boundaries returns exactly the indices i in 1..N-1 whose
\* mean absolute difference to frame i-1 is strictly greater than the
\* threshold, in strictly increasing order; a single spike at k yields [k]; a
\* difference equal to the threshold is not a boundary.
C12_BoundariesAreTheSpikes ==
    pc \in {"detected", "selected"}
        => /\ {shot_boundaries[p] : p \in 1..Len(shot_boundaries)} = Spikes(frames, threshold)
           /\ \A p \in 1..(Len(shot_boundaries) - 1) :
                shot_boundaries[p] < shot_boundaries[p + 1]
           /\ \A k \in 1..(Len(frames) - 1) :
                Spikes(frames, threshold) = {k} => shot_boundaries = <<k>>
           /\ \A i \in 1..(Len(frames) - 1) :
                Abs(frames[i + 1] - frames[i]) = threshold
                    => \A p \in 1..Len(shot_boundaries) : shot_boundaries[p] # i

\* four frames whose first difference equals the threshold 1, the second
\* exceeds it and the third is below it: the only boundary is 2
C12_Witness ==
    /\ pc = "detected"
    /\ threshold = 1
    /\ Len(frames) = 4
    /\ Abs(frames[2] - frames[1]) = 1
    /\ Abs(frames[3] - frames[2]) = 2
    /\ frames[4] = frames[3]
    /\ shot_boundaries = <<2>>

----------------------------------------------------------------------------
(* Claims on SpecKeyframes *)

\* shot i (from 1) of the given boundary list spans [SpanStart(i), SpanEnd(i))
SpanStart(i) == IF i = 1 THEN 0 ELSE shot_boundaries[i - 1]
SpanEnd(i) == shot_boundaries[i]
SpanFrames(i) == {frames[a] : a \in (SpanStart(i) + 1)..Min(SpanEnd(i), Len(frames))}

\* C13: the representative selected for a shot of N >= 1 identical frames is
\* the first frame of the shot: its absolute index is the shot's start (ties of
\* the distance to the centroid go to the first minimum).
C13_IdenticalShotYieldsItsFirstFrame ==
    pc = "chosen"
        => \A i \in 1..Len(keyframe_indices) :
             Cardinality(SpanFrames(i)) = 1 => keyframe_indices[i] = SpanStart(i)

\* a shot of one frame, then a shot of three identical frames
C13_Witness ==
    /\ pc = "chosen"
    /\ Len(frames) = 4
    /\ shot_boundaries = <<1, 4>>
    /\ frames[2] = frames[3] /\ frames[3] = frames[4]
    /\ keyframe_indices = <<0, 1>>

OnePerShotInSpan ==
    /\ exc = "None"
    /\ Len(keyframe_indices) = Len(shot_boundaries)
    /\ \A i \in 1..Len(shot_boundaries) :
         SpanStart(i) <= keyframe_indices[i] /\ keyframe_indices[i] < SpanEnd(i)
    /\ \A i \in 1..(Len(keyframe_indices) - 1) :
         keyframe_indices[i] < keyframe_indices[i + 1]

BoundariesWithin(lo, hi) ==
    \A p \in 1..Len(shot_boundaries) : lo <= shot_boundaries[p] /\ shot_boundaries[p] <= hi

\* C14 as stated: for any frame sequence and any strictly increasing boundary
\* list (here: of frame indices 0..N-1), extract_keyframes returns one pair per
\* shot, in shot order, the index of shot i inside [start_i, end_i); the
\* indices are strictly increasing.
C14_OnePerShotForAnyList ==
    (pc = "chosen" /\ BoundariesWithin(0, Len(frames) - 1)) => OnePerShotInSpan

\* C14 amended: the same for any strictly increasing boundary list whose
\* members lie in 1..N, N the number of frames.
C14_OnePerShotForListWithinFrames ==
    (pc = "chosen" /\ BoundariesWithin(1, Len(frames))) => OnePerShotInSpan

\* three shots of a four-frame sequence, the last boundary at N
C14_Witness ==
    /\ pc = "chosen"
    /\ Len(frames) = 4
    /\ shot_boundaries = <<1, 3, 4>>
    /\ frames[2] # frames[3]
    /\ Len(keyframe_indices) = 3
    /\ keyframe_indices[3] = 3

----------------------------------------------------------------------------
(* Claims on SpecExtract, continued *)

Sought == {seeks[k] : k \in 1..Len(seeks)}
Archived == {written[k] : k \in 1..Len(written)}

\* C15: a decode failure at a valid index is absorbed: the call raises
\* nothing, writes no file for that index and does not mark its second as
\* seen; every later index of the list is still processed, and a later index
\* of the same second whose decode succeeds is archived.
C15_DecodeFailureAbsorbed ==
    (/\ pc = "extracted" /\ fps >= 1 /\ frame_numbers # <<>>
     /\ \A k \in Positions : ~ OutOfRange(frame_numbers[k]))
        => /\ exc = "None"
           /\ \A k \in Positions :
                frame_numbers[k] \notin CanRead
                    => /\ frame_numbers[k] \notin Archived
                       /\ \A f \in hd_folder : FrameNumberOf(f) # frame_numbers[k]
           /\ \A k \in Positions :
                \/ frame_numbers[k] \in Sought
                \/ \E j \in 1..(k - 1) :
                     SecondOf(j) = SecondOf(k) /\ frame_numbers[j] \in CanRead
           /\ \A k \in Positions :
                (/\ frame_numbers[k] \in CanRead
                 /\ \A j \in 1..(k - 1) :
                      SecondOf(j) = SecondOf(k) => frame_numbers[j] \notin CanRead)
                    => frame_numbers[k] \in Archived

\* index 0 fails to decode; index 1 of the same second and index 2 of the
\* next second are archived
C15_Witness ==
    /\ pc = "extracted" /\ exc = "None" /\ cap_open
    /\ fps = 2
    /\ frame_numbers = <<0, 1, 2>>
    /\ 0 \notin CanRead
    /\ seeks = <<0, 1, 2>>
    /\ written = <<1, 2>>
    /\ Cardinality(hd_folder) = 2

----------------------------------------------------------------------------
(* Claims on Spec: order of the steps, retries *)

StepOrder == <<"compress", "open_mini", "lowres", "recover", "hires">>
CleanupSteps == {"release", "remove_compressed", "rmtree", "sleep"}
IsPipelineStep(e) == e[1] \in PipelineSteps
\* the pipeline steps of this run, in the order they were executed
StepsRun == SelectSeq(trace, IsPipelineStep)

\* C16: the steps run in the fixed order compress, low-resolution pass,
\* recover, high-resolution pass; a failing step (transcoder exit, compressed
\* video not opened, empty recovery included) is followed by cleanup only;
\* after a transcoder failure no low-resolution source is opened and no file
\* is written to the mini-frame directory or to output_dir.
C16_FixedOrderAbortOnFailure ==
    /\ Len(StepsRun) <= Len(StepOrder)
    /\ \A j \in 1..Len(StepsRun) : StepsRun[j][1] = StepOrder[j]
    /\ \A j \in 1..(Len(StepsRun) - 1) : StepsRun[j][2] = "None"
    /\ \A k \in FailedSteps : \A l \in (k + 1)..Len(trace) : trace[l][1] \in CleanupSteps
    /\ FailedSteps # {} => pc \in {"release", "remove_compressed", "rmtree", "finish", "done"}
    /\ Failures("compress") # {}
         => /\ mini = "None" /\ ~ Did("open_mini")
            /\ folder = {} /\ hd_folder = {} /\ written = <<>> /\ seeks = <<>>

\* the transcoder failed; the call ended after cleanup with its error
C16_Witness ==
    /\ pc = "done"
    /\ Failures("compress") # {}
    /\ Did("release") /\ Did("rmtree")
    /\ raised = "CalledProcessError"
    /\ frames # <<>>


\* the number of removal attempts logged up to position k of trace
AttemptsUpTo(k) == Cardinality({j \in Entries("rmtree") : j <= k})

\* C17: the removal of the temp directory is attempted at most 3 times and
\* never again after a success; a failed attempt is followed by a wait unless
\* it is the last one; the loop always ends.  Nothing else is retried: the
\* transcoder runs at most once, the compressed file is deleted at most once,
\* no frame index is decoded twice.
C17_OnlyTempRemovalRetried ==
    /\ tries = Cardinality(Entries("rmtree")) /\ tries <= max_retries
    /\ \A k \in Entries("rmtree") : trace[k][2] = "None" => k = Len(trace)
    /\ \A k \in Failures("rmtree") :
         IF AttemptsUpTo(k) < max_retries
         THEN k < Len(trace) /\ trace[k + 1][1] = "sleep"
         ELSE k = Len(trace)
    /\ \A k \in Entries("sleep") : k > 1 /\ trace[k - 1] = <<"rmtree", "OSError">>
    /\ pc = "rmtree" => (tries < max_retries /\ ENABLED Rmtree)
    /\ pc \in {"release", "remove_compressed", "finish"} => ENABLED Steps
    /\ Cardinality(Entries("compress")) <= 1
    /\ Cardinality(Entries("remove_compressed")) <= 1
    /\ \A a \in 1..Len(seeks), b \in 1..Len(seeks) : a < b => seeks[a] # seeks[b]

\* two failed removals, each followed by a wait, then a third that succeeds,
\* after a high-resolution pass that decoded a frame
C17_Witness ==
    /\ pc = "done"
    /\ Cardinality(Failures("rmtree")) = 2
    /\ Cardinality(Entries("sleep")) = 2
    /\ tries = max_retries
    /\ ~ temp_dir
    /\ seeks # <<>>

----------------------------------------------------------------------------
(* Claims on SpecRuns, continued *)

\* the absolute indices the low-resolution pass of this run selected
Selected == {keyframe_indices[k] : k \in 1..Len(keyframe_indices)}
Recovered == {frame_numbers[k] : k \in 1..Len(frame_numbers)}

\* C18: over any sequence of runs on the same output_dir, the list recovered
\* in step 4 holds exactly the indices the low-resolution pass of the same run
\* selected, and no other index is handed to the high-resolution pass.
C18_RecoveredIsSelectedOfThisRun ==
    /\ Did("recover") => Recovered = Selected
    /\ Did("hires") => Sought \subseteq Selected

----------------------------------------------------------------------------
(* Claims on SpecPasses *)

\* the frame indices of the files of the mini-frame directory
ArchivedIndices == {FrameNumberOf(f) : f \in folder}

\* C19: with skip_frames = floor(skip_seconds * fps) and M frames decoded,
\* every index the low-resolution pass archives lies in [skip_frames, M); it
\* lies in [0, total_frames) when M <= total_frames, and then the range check
\* of the high-resolution pass rejects no index of the low-resolution pass.
C19_ArchivedIndexIsPositionOfSource ==
    /\ Did("lowres")
         => \A idx \in Selected \cup ArchivedIndices :
              /\ skip_seconds * fps <= idx /\ idx < Len(frames)
              /\ Len(frames) <= total_frames => (0 <= idx /\ idx < total_frames)
    /\ (Did("hires") /\ Len(frames) <= total_frames)
         => exc # "ValueError: invalid frame number"

\* one second skipped, a keyframe archived past the skipped part and
\* extracted again from a source that reports one frame more than it yields
C19_Witness ==
    /\ Did("hires")
    /\ skip_seconds = 1 /\ fps >= 1
    /\ total_frames = Len(frames) + 1
    /\ ArchivedIndices # {}
    /\ Archived = ArchivedIndices
    /\ exc = "None"

----------------------------------------------------------------------------
(* Claims on Spec: nothing left after the skip *)

\* skip_seconds removes every decoded frame (a source of no frame included)
NothingLeft == skip_seconds * fps >= Len(frames)

\* C20: when skip_seconds removes every decoded frame, process_video raises
\* before boundary detection and writes no keyframe file; in the pipeline the
\* error reaches the caller after cleanup and no high-resolution file is
\* written.
C20_NothingLeftAfterSkipRaises ==
    (Did("lowres") /\ NothingLeft)
        => /\ \A k \in Entries("lowres") : trace[k][2] = "ValueError: no frames left"
           /\ shot_boundaries = <<>> /\ keyframe_indices = <<>>
           /\ folder = {}
           /\ ~ Did("recover") /\ ~ Did("hires")
           /\ hd_folder = {} /\ written = <<>> /\ seeks = <<>>
           /\ IF pc = "done"
              THEN raised = "ValueError: no frames left" /\ Did("release")
              ELSE raised = "None"

\* two frames at 2 frames per second, one second skipped; the call ended with
\* the error after removing the temp directory
C20_Witness ==
    /\ pc = "done"
    /\ Len(frames) = 2 /\ fps = 2 /\ skip_seconds = 1
    /\ raised = "ValueError: no frames left"
    /\ Did("rmtree") /\ ~ temp_dir
    /\ hd_folder = {}

====
